---- MODULE Spec2Model ----
(***************************************************************************)
(* WorldBackupPlugin (src/src/endstone_world_backup/world_backup_plugin.py) *)
(* as a state machine: the server's main thread (on_enable, on_disable,    *)
(* on_command, the scheduler's recurring backup_task), the background      *)
(* threads running _backup_task, the world directory, the backup directory *)
(* and the wall clock.                                                     *)
(***************************************************************************)
EXTENDS Integers, Sequences, FiniteSets, TLC

\* ------------------------------------------------------------------ bounds
MaxTasks == 2        \* background threads started in one behaviour
MaxFiles == 2        \* world files while other processes create and delete them
MaxTime == 2         \* seconds the clock advances during a run
MaxN == 100          \* world files of an unchanging world
MaxLimit == 3        \* largest configured max-backups
MaxExcess == 3       \* archives in the backup directory beyond the limit

\* -------------------------------------------------------- program constants
DefaultMaxBackups == 10
ReportStep == 10
InitialLastReported == -1
Percent == 100

\* ------------------------------------------------------------- file names
\* A name of the backup directory is prefix ++ stamp ++ ext; stamp is the
\* string of decimal digits the timestamp formats to.
BackupPrefix == "world_backup_"
BackupExt == ".zip"

\* datetime.now().strftime(...): fixed width, zero padded, most significant
\* field first.  The clock of the model counts seconds and formats to two digits.
strftime(now_) == <<now_ \div 10, now_ % 10>>

BackupFileName(timestamp) ==
    [prefix |-> BackupPrefix, stamp |-> timestamp, ext |-> BackupExt]

NoName == [prefix |-> "", stamp |-> <<>>, ext |-> ""]

\* f.endswith('.zip') and f.startswith('world_backup_')
IsBackupName(f) == f.ext = BackupExt /\ f.prefix = BackupPrefix

\* Files of the directory the retention scan must leave alone.
OtherNames ==
    { [prefix |-> BackupPrefix, stamp |-> <<0, 1>>, ext |-> ".zip.tmp"],
      [prefix |-> "notes_", stamp |-> <<0, 1>>, ext |-> BackupExt] }

\* Python's str comparison on two listed names: they share prefix and
\* extension, so the digits decide, compared left to right.
RECURSIVE LexLess(_, _)
LexLess(a, b) ==
    IF b = <<>> THEN FALSE
    ELSE IF a = <<>> THEN TRUE
    ELSE IF Head(a) # Head(b) THEN Head(a) < Head(b)
    ELSE LexLess(Tail(a), Tail(b))

NameLess(f, g) == LexLess(f.stamp, g.stamp)

\* (variant) the listing put in descending order
RECURSIVE SortNamesDescending(_)
SortNamesDescending(S) ==
    IF S = {} THEN <<>>
    ELSE LET m == CHOOSE x \in S : \A y \in S : ~NameLess(x, y)
         IN  <<m>> \o SortNamesDescending(S \ {m})

\* backups.sort()
RECURSIVE SortNames(_)
SortNames(S) ==
    IF S = {} THEN <<>>
    ELSE LET m == CHOOSE x \in S : \A y \in S : ~NameLess(y, x)
         IN  <<m>> \o SortNames(S \ {m})

\* ---------------------------------------------------------- world directory
\* A Bedrock world: level.dat in the world directory itself, the database
\* files in its db sub-directory.  os.walk visits the top directory first.
WalkOrder == <<"world", "db">>
DirOf(f) == IF f = 1 THEN "world" ELSE "db"
FilesIn(d, w) == {f \in w : DirOf(f) = d}

RECURSIVE SeqOf(_)
SeqOf(S) ==
    IF S = {} THEN <<>>
    ELSE LET m == CHOOSE x \in S : \A y \in S : x <= y
         IN  <<m>> \o SeqOf(S \ {m})

\* -------------------------------------------------------------- progress
\* The pairs (files_processed, total_files), total_files <= 130, for which the
\* double-precision product (files_processed / total_files) * 100 lies just
\* below the exact integer 100 * files_processed / total_files, so that int()
\* truncates to one less.
FloatShortfall ==
    { <<23, 20>>, <<41, 20>>, <<29, 25>>, <<46, 40>>, <<82, 40>>, <<29, 50>>,
      <<57, 50>>, <<58, 50>>, <<69, 60>>, <<87, 75>>, <<92, 80>>, <<29, 100>>,
      <<57, 100>>, <<58, 100>>, <<113, 100>>, <<114, 100>>, <<115, 100>>,
      <<116, 100>>, <<201, 100>>, <<138, 120>>, <<145, 125>> }

\* int((files_processed / total_files) * 100)
Progress(files_processed, total_files) ==
    LET q == (files_processed * Percent) \div total_files
    IN  IF <<files_processed, total_files>> \in FloatShortfall THEN q - 1 ELSE q

\* (variant) a report on every increase of the percentage
ShouldReportEveryIncrease(progress, last_reported_progress) ==
    progress > last_reported_progress

\* (variant) a report only when the percentage rose by more than the step
ShouldReportStrict(progress, last_reported_progress) ==
    progress > last_reported_progress + ReportStep

\* if progress >= last_reported_progress + 10
ShouldReport(progress, last_reported_progress) ==
    progress >= last_reported_progress + ReportStep

\* ------------------------------------------------------------ configuration
Absent == [kind |-> "absent", val |-> 0]
IntVal(n) == [kind |-> "int", val |-> n]
NotInt == [kind |-> "other", val |-> 0]

\* backup_management_config.get("max-backups", 10)
GetMaxBackups(cfg) ==
    IF cfg.max_backups.kind = "absent" THEN IntVal(DefaultMaxBackups)
    ELSE cfg.max_backups

\* (variant) the limit compared with "< 0"
PruningEnabledNoSign(max_backups) == max_backups.kind = "int" /\ max_backups.val >= 0

\* not (not isinstance(max_backups, int) or max_backups <= 0)
PruningEnabled(max_backups) == max_backups.kind = "int" /\ max_backups.val > 0

\* (variant) the slice taken from the other end of the sorted list
FilesToDeleteNewest(backups, max_backups) ==
    IF Len(backups) > max_backups
    THEN SubSeq(backups, max_backups + 1, Len(backups))
    ELSE <<>>

\* backups[:len(backups) - max_backups] when len(backups) > max_backups
FilesToDelete(backups, max_backups) ==
    IF Len(backups) > max_backups
    THEN SubSeq(backups, 1, Len(backups) - max_backups)
    ELSE <<>>

\* ------------------------------------------------------------------- state
VARIABLES
    enabled,           \* the host has enabled the plugin
    config,            \* self.config after _validate_config
    auto_backup_task,  \* self.auto_backup_task: "None", "active", "cancelled"
    sched_active,      \* recurring tasks registered with the scheduler, not cancelled
    is_backing_up,     \* self.is_backing_up
    accepted,          \* calls of _execute_backup that returned True
    last_call,         \* the last call of _execute_backup: its is_auto, what it returned
    th,                \* the background threads: locals of _backup_task, and what each did
    world_exists,      \* os.path.isdir(world_path)
    world,             \* the files under the world directory
    backup_dir_exists, \* the backup directory exists
    backup_dir,        \* the names in the backup directory
    incomplete,        \* the names whose archive was opened for writing and not closed
    now                \* the wall clock, in seconds

vars == <<enabled, config, auto_backup_task, sched_active, is_backing_up, accepted,
          last_call, th, world_exists, world, backup_dir_exists, backup_dir, incomplete,
          now>>

mainVars == <<enabled, config, auto_backup_task, sched_active, accepted, last_call>>
fsVars == <<world_exists, world, backup_dir_exists, backup_dir, incomplete>>

Tasks == 1 .. MaxTasks

Ev(e) == [ev |-> e, pct |-> 0, k |-> 0, n |-> 0]
ProgressEv(p, k_, n_) == [ev |-> "progress", pct |-> p, k |-> k_, n |-> n_]

NewTask ==
    [ pc |-> "unused", backup_file_name |-> NoName,
      total_files |-> 0, walk |-> 1, files |-> <<>>,
      files_skipped |-> 0, files_processed |-> 0, files_written |-> 0,
      last_reported_progress |-> 0, backups |-> <<>>, files_to_delete |-> <<>>,
      deleted |-> <<>>, failed |-> <<>>, outcome |-> "none", trace |-> <<>> ]

\* the thread has ended: its locals are gone, what it reported stays reported
Ended(outcome) == [NewTask EXCEPT !.pc = "done", !.outcome = outcome]

Has(t, e) == \E i \in 1 .. Len(th[t].trace) : th[t].trace[i].ev = e
Running(t) == th[t].pc \notin {"unused", "done"}

\* ------------------------------------------------------- _backup_task steps
\* (variant) the thread starts its work only when no other run is under way
AcquireAfterOthers(t) ==
    /\ th[t].pc = "start"
    /\ \A u \in Tasks \ {t} : ~Running(u)
    /\ is_backing_up' = TRUE
    /\ th' = [th EXCEPT ![t].pc = "isdir", ![t].trace = Append(@, Ev("lock"))]
    /\ UNCHANGED <<mainVars, fsVars, now>>

\* self.is_backing_up = True
Acquire(t) ==
    /\ th[t].pc = "start"
    /\ is_backing_up' = TRUE
    /\ th' = [th EXCEPT ![t].pc = "isdir", ![t].trace = Append(@, Ev("lock"))]
    /\ UNCHANGED <<mainVars, fsVars, now>>

\* (variant) the backup directory created before the world directory is checked
CheckSourceAfterMakedirs(t) ==
    /\ th[t].pc = "isdir"
    /\ backup_dir_exists' = TRUE
    /\ IF world_exists
       THEN th' = [th EXCEPT ![t].pc = "makedirs",
                             ![t].trace = Append(@, Ev("makedirs"))]
       ELSE th' = [th EXCEPT ![t].pc = "finally",
                             ![t].outcome = "SourceNotFound",
                             ![t].trace = Append(Append(@, Ev("makedirs")),
                                                 Ev("source_not_found"))]
    /\ UNCHANGED <<mainVars, is_backing_up, world_exists, world, backup_dir, incomplete, now>>

\* if not os.path.isdir(world_path): ... return
CheckSource(t) ==
    /\ th[t].pc = "isdir"
    /\ IF world_exists
       THEN th' = [th EXCEPT ![t].pc = "makedirs"]
       ELSE th' = [th EXCEPT ![t].pc = "finally",
                             ![t].outcome = "SourceNotFound",
                             ![t].trace = Append(@, Ev("source_not_found"))]
    /\ UNCHANGED <<mainVars, is_backing_up, fsVars, now>>

\* (variant) a refused os.makedirs is reported and the run goes on
MakeDirsContinuing(t) ==
    /\ th[t].pc = "makedirs"
    /\ \E r \in {"ok", "PermissionError"} :
         /\ backup_dir_exists' = (backup_dir_exists \/ r = "ok")
         /\ th' = [th EXCEPT ![t].pc = "count",
                             ![t].backup_file_name = BackupFileName(strftime(now)),
                             ![t].total_files = 0,
                             ![t].walk = 1,
                             ![t].outcome = IF r = "ok" THEN @ ELSE "BackupDirCreateFailed",
                             ![t].trace = Append(@, IF r = "ok" THEN Ev("makedirs")
                                                    ELSE Ev("makedirs_denied"))]
    /\ UNCHANGED <<mainVars, is_backing_up, world_exists, world, backup_dir, incomplete, now>>

\* os.makedirs(backup_dir, exist_ok=True), then the timestamp and the file name
MakeDirs(t) ==
    /\ th[t].pc = "makedirs"
    /\ \E r \in {"ok", "PermissionError"} :
         IF r = "ok"
         THEN /\ backup_dir_exists' = TRUE
              /\ th' = [th EXCEPT ![t].pc = "count",
                                  ![t].backup_file_name = BackupFileName(strftime(now)),
                                  ![t].total_files = 0,
                                  ![t].walk = 1,
                                  ![t].trace = Append(@, Ev("makedirs"))]
         ELSE /\ backup_dir_exists' = backup_dir_exists
              /\ th' = [th EXCEPT ![t].pc = "finally",
                                  ![t].outcome = "BackupDirCreateFailed",
                                  ![t].trace = Append(@, Ev("makedirs_denied"))]
    /\ UNCHANGED <<mainVars, is_backing_up, world_exists, world, backup_dir, incomplete, now>>

\* (variant) an empty world reported and then pruned like a successful run
CountThenPrune(t) ==
    /\ th[t].pc = "count"
    /\ LET total == th[t].total_files + Cardinality(FilesIn(WalkOrder[th[t].walk], world))
           last == th[t].walk = Len(WalkOrder)
       IN  th' = [th EXCEPT
                   ![t].total_files = total,
                   ![t].walk = IF last THEN 1 ELSE @ + 1,
                   ![t].pc = IF ~last THEN "count" ELSE IF total = 0 THEN "manage" ELSE "open",
                   ![t].outcome = IF last /\ total = 0 THEN "NoFilesFound" ELSE @,
                   ![t].trace = IF last /\ total = 0 THEN Append(@, Ev("no_files")) ELSE @,
                   ![t].files_skipped = IF last THEN 0 ELSE @,
                   ![t].files_processed = IF last THEN 0 ELSE @,
                   ![t].last_reported_progress = IF last THEN InitialLastReported ELSE @]
    /\ UNCHANGED <<mainVars, is_backing_up, fsVars, now>>

\* for _, _, files in os.walk(world_path): total_files += len(files)
\* and, after the last directory, if total_files == 0: ... return
Count(t) ==
    /\ th[t].pc = "count"
    /\ LET total == th[t].total_files + Cardinality(FilesIn(WalkOrder[th[t].walk], world))
           last == th[t].walk = Len(WalkOrder)
       IN  th' = [th EXCEPT
                   ![t].total_files = total,
                   ![t].walk = IF last THEN 1 ELSE @ + 1,
                   ![t].pc = IF ~last THEN "count" ELSE IF total = 0 THEN "finally" ELSE "open",
                   ![t].outcome = IF last /\ total = 0 THEN "NoFilesFound" ELSE @,
                   ![t].trace = IF last /\ total = 0 THEN Append(@, Ev("no_files")) ELSE @,
                   ![t].files_skipped = IF last THEN 0 ELSE @,
                   ![t].files_processed = IF last THEN 0 ELSE @,
                   ![t].last_reported_progress = IF last THEN InitialLastReported ELSE @]
    /\ UNCHANGED <<mainVars, is_backing_up, fsVars, now>>

\* zipfile.ZipFile(backup_path, 'w', ...): creates (or truncates) the file
Open(t) ==
    /\ th[t].pc = "open"
    /\ backup_dir' = backup_dir \cup {th[t].backup_file_name}
    /\ incomplete' = incomplete \cup {th[t].backup_file_name}
    /\ th' = [th EXCEPT ![t].pc = "walk", ![t].walk = 1,
                        ![t].trace = Append(@, Ev("open"))]
    /\ UNCHANGED <<mainVars, is_backing_up, world_exists, world, backup_dir_exists, now>>

\* for root, dirs, files in os.walk(world_path): the listing of one directory
Walk(t) ==
    /\ th[t].pc = "walk"
    /\ th[t].walk <= Len(WalkOrder)
    /\ LET listing == SeqOf(FilesIn(WalkOrder[th[t].walk], world))
       IN  th' = [th EXCEPT ![t].files = listing,
                            ![t].walk = @ + 1,
                            ![t].pc = IF listing = <<>> THEN "walk" ELSE "write"]
    /\ UNCHANGED <<mainVars, is_backing_up, fsVars, now>>

\* the body of "for file in files": zipf.write, the counters, the progress report
Write(t) ==
    /\ th[t].pc = "write"
    /\ LET file == Head(th[t].files)
           found == file \in world
           processed == th[t].files_processed + 1
           progress == Progress(processed, th[t].total_files)
           report == ShouldReport(progress, th[t].last_reported_progress)
       IN  th' = [th EXCEPT
                   ![t].files = Tail(@),
                   ![t].files_written = IF found THEN @ + 1 ELSE @,
                   ![t].files_skipped = IF found THEN @ ELSE @ + 1,
                   ![t].files_processed = processed,
                   ![t].last_reported_progress = IF report THEN progress ELSE @,
                   ![t].trace = IF report
                                THEN Append(@, ProgressEv(progress, processed, th[t].total_files))
                                ELSE @,
                   ![t].pc = IF Tail(th[t].files) = <<>> THEN "walk" ELSE "write"]
    /\ UNCHANGED <<mainVars, is_backing_up, fsVars, now>>

\* leaving the with block after the last directory, then the success message
Close(t) ==
    /\ th[t].pc = "walk"
    /\ th[t].walk > Len(WalkOrder)
    /\ th' = [th EXCEPT ![t].pc = "manage",
                        ![t].outcome = "Success",
                        ![t].trace = Append(Append(@, Ev("close")), Ev("success"))]
    /\ incomplete' = incomplete \ {th[t].backup_file_name}
    /\ UNCHANGED <<mainVars, is_backing_up, world_exists, world, backup_dir_exists,
                   backup_dir, now>>

\* _manage_backups up to the end of the listing: the limit, os.listdir, sort, slice
Manage(t) ==
    /\ th[t].pc = "manage"
    /\ LET max_backups == GetMaxBackups(config)
       IN  IF ~PruningEnabled(max_backups)
           THEN th' = [th EXCEPT ![t].pc = "finally",
                                 ![t].trace = Append(@, Ev("prune_off"))]
           ELSE \E r \in {"ok", "OSError"} :
                  IF r = "ok"
                  THEN LET backups == SortNames({f \in backup_dir : IsBackupName(f)})
                           files_to_delete == FilesToDelete(backups, max_backups.val)
                       IN  th' = [th EXCEPT
                                   ![t].backups = backups,
                                   ![t].files_to_delete = files_to_delete,
                                   ![t].pc = IF files_to_delete = <<>> THEN "finally" ELSE "remove",
                                   ![t].trace = Append(@, Ev("listdir"))]
                  ELSE th' = [th EXCEPT ![t].pc = "finally",
                                        ![t].trace = Append(@, Ev("listdir_failed"))]
    /\ UNCHANGED <<mainVars, is_backing_up, fsVars, now>>

\* (variant) the first failing os.remove ends the loop
RemoveAborting(t) ==
    /\ th[t].pc = "remove"
    /\ LET filename == Head(th[t].files_to_delete)
           next == IF Tail(th[t].files_to_delete) = <<>> THEN "finally" ELSE "remove"
       IN  \E r \in {"ok", "error"} :
             IF filename \notin backup_dir
             THEN /\ r = "ok"
                  /\ backup_dir' = backup_dir
                  /\ th' = [th EXCEPT ![t].pc = "finally",
                                      ![t].failed = Append(@, filename),
                                      ![t].trace = Append(@, Ev("remove_missing"))]
             ELSE IF r = "ok"
             THEN /\ backup_dir' = backup_dir \ {filename}
                  /\ th' = [th EXCEPT ![t].files_to_delete = Tail(@), ![t].pc = next,
                                      ![t].deleted = Append(@, filename),
                                      ![t].trace = Append(@, Ev("remove"))]
             ELSE /\ backup_dir' = backup_dir
                  /\ th' = [th EXCEPT ![t].pc = "finally",
                                      ![t].failed = Append(@, filename),
                                      ![t].trace = Append(@, Ev("remove_failed"))]
    /\ incomplete' = incomplete \cap backup_dir'
    /\ UNCHANGED <<mainVars, is_backing_up, world_exists, world, backup_dir_exists, now>>

\* the body of "for filename in files_to_delete": os.remove and its handlers
Remove(t) ==
    /\ th[t].pc = "remove"
    /\ LET filename == Head(th[t].files_to_delete)
           next == IF Tail(th[t].files_to_delete) = <<>> THEN "finally" ELSE "remove"
       IN  \E r \in {"ok", "error"} :
             IF filename \notin backup_dir
             THEN /\ r = "ok"
                  /\ backup_dir' = backup_dir
                  /\ th' = [th EXCEPT ![t].files_to_delete = Tail(@), ![t].pc = next,
                                      ![t].failed = Append(@, filename),
                                      ![t].trace = Append(@, Ev("remove_missing"))]
             ELSE IF r = "ok"
             THEN /\ backup_dir' = backup_dir \ {filename}
                  /\ th' = [th EXCEPT ![t].files_to_delete = Tail(@), ![t].pc = next,
                                      ![t].deleted = Append(@, filename),
                                      ![t].trace = Append(@, Ev("remove"))]
             ELSE /\ backup_dir' = backup_dir
                  /\ th' = [th EXCEPT ![t].files_to_delete = Tail(@), ![t].pc = next,
                                      ![t].failed = Append(@, filename),
                                      ![t].trace = Append(@, Ev("remove_failed"))]
    /\ incomplete' = incomplete \cap backup_dir'
    /\ UNCHANGED <<mainVars, is_backing_up, world_exists, world, backup_dir_exists, now>>

\* except Exception as e: any statement of the try block outside an inner
\* handler raises; the handler logs and broadcasts, control goes to finally
TryPcs == {"isdir", "makedirs", "count", "open", "walk", "write", "manage"}

\* (variant) no finally clause: the exception ends the thread
UnhandledNoFinally(t) ==
    /\ th[t].pc \in TryPcs
    /\ th' = [th EXCEPT ![t] = Ended("Unhandled")]
    /\ UNCHANGED <<mainVars, is_backing_up, fsVars, now>>

Unhandled(t) ==
    /\ th[t].pc \in TryPcs
    /\ th' = [th EXCEPT ![t].pc = "finally",
                        ![t].outcome = IF @ = "none" THEN "Unhandled" ELSE @,
                        ![t].trace = Append(@, Ev("unhandled"))]
    /\ UNCHANGED <<mainVars, is_backing_up, fsVars, now>>

\* finally: self.is_backing_up = False
Finally(t) ==
    /\ th[t].pc = "finally"
    /\ is_backing_up' = FALSE
    /\ th' = [th EXCEPT ![t] = Ended(th[t].outcome)]
    /\ UNCHANGED <<mainVars, fsVars, now>>

BackupTask(t) ==
    \/ Acquire(t)
    \/ CheckSource(t)
    \/ MakeDirs(t)
    \/ Count(t)
    \/ Open(t)
    \/ Walk(t)
    \/ Write(t)
    \/ Close(t)
    \/ Manage(t)
    \/ Remove(t)
    \/ Unhandled(t)
    \/ Finally(t)

\* ------------------------------------------------------------- main thread
Unused == {t \in Tasks : th[t].pc = "unused"}

\* (variant) a request that finds a backup running is queued behind it
ExecuteBackupQueued(is_auto) ==
    /\ Unused # {}
    /\ LET t == CHOOSE u \in Unused : \A v \in Unused : u <= v
       IN  th' = [th EXCEPT ![t].pc = "start", ![t].trace = <<Ev("starting")>>]
    /\ IF is_backing_up
       THEN /\ last_call' = [is_auto |-> is_auto, returned |-> "False"]
            /\ accepted' = accepted
       ELSE /\ last_call' = [is_auto |-> is_auto, returned |-> "True"]
            /\ accepted' = accepted + 1
    /\ UNCHANGED <<enabled, config, auto_backup_task, sched_active,
                   is_backing_up, fsVars, now>>

\* _execute_backup: the check of is_backing_up, then the thread
ExecuteBackup(is_auto) ==
    IF is_backing_up
    THEN /\ last_call' = [is_auto |-> is_auto, returned |-> "False"]
         /\ UNCHANGED <<enabled, config, auto_backup_task, sched_active, accepted,
                        is_backing_up, th, fsVars, now>>
    ELSE /\ Unused # {}
         /\ LET t == CHOOSE u \in Unused : \A v \in Unused : u <= v
            IN  th' = [th EXCEPT ![t].pc = "start", ![t].trace = <<Ev("starting")>>]
         /\ accepted' = accepted + 1
         /\ last_call' = [is_auto |-> is_auto, returned |-> "True"]
         /\ UNCHANGED <<enabled, config, auto_backup_task, sched_active,
                        is_backing_up, fsVars, now>>

\* on_command: a player below OP is refused before _execute_backup
Senders == {"console", "op", "player"}

OnCommand(sender) ==
    /\ enabled
    /\ sender # "player"
    /\ ExecuteBackup(FALSE)

\* the scheduler runs backup_task
ScheduledBackup ==
    /\ sched_active > 0
    /\ ExecuteBackup(TRUE)

\* _schedule_auto_backup
ScheduleAutoBackup ==
    LET cancelled == IF auto_backup_task = "active" THEN sched_active - 1 ELSE sched_active
    IN  IF config.auto = "on"
        THEN /\ auto_backup_task' = "active"
             /\ sched_active' = cancelled + 1
        ELSE /\ auto_backup_task' = "None"
             /\ sched_active' = cancelled

OnEnable ==
    /\ ~enabled
    /\ enabled' = TRUE
    /\ ScheduleAutoBackup
    /\ UNCHANGED <<config, is_backing_up, accepted, last_call, th, fsVars, now>>

\* (variant) on_disable leaves the recurring task registered
OnDisableNoCancel ==
    /\ enabled
    /\ enabled' = FALSE
    /\ UNCHANGED <<config, auto_backup_task, sched_active, is_backing_up, accepted,
                   last_call, th, fsVars, now>>

\* on_disable
OnDisable ==
    /\ enabled
    /\ enabled' = FALSE
    /\ IF auto_backup_task = "active"
       THEN /\ auto_backup_task' = "cancelled"
            /\ sched_active' = sched_active - 1
       ELSE UNCHANGED <<auto_backup_task, sched_active>>
    /\ UNCHANGED <<config, is_backing_up, accepted, last_call, th, fsVars, now>>

\* ------------------------------------------------------------- environment
Files == 1 .. MaxFiles

\* The clock starts after the stamps of the archives of earlier runs.
StartTime == DefaultMaxBackups + MaxExcess + 1

\* the wall clock advances
Tick ==
    /\ now < StartTime + MaxTime
    /\ now' = now + 1
    /\ UNCHANGED <<mainVars, is_backing_up, th, fsVars>>

\* another process (the server) deletes or creates a world file
DeleteWorldFile(f) ==
    /\ f \in world
    /\ world' = world \ {f}
    /\ UNCHANGED <<mainVars, is_backing_up, th, world_exists, backup_dir_exists, backup_dir,
                   incomplete, now>>

CreateWorldFile(f) ==
    /\ world_exists
    /\ f \notin world
    /\ world' = world \cup {f}
    /\ UNCHANGED <<mainVars, is_backing_up, th, world_exists, backup_dir_exists, backup_dir,
                   incomplete, now>>

\* another process removes the archive a pruning pass is about to remove
ExternalRemove(f) ==
    /\ f \in backup_dir
    /\ \E t \in Tasks : th[t].pc = "remove" /\ f = Head(th[t].files_to_delete)
    /\ backup_dir' = backup_dir \ {f}
    /\ incomplete' = incomplete \ {f}
    /\ UNCHANGED <<mainVars, is_backing_up, th, world_exists, world, backup_dir_exists, now>>

\* ----------------------------------------------------------- specifications
\* The archives of earlier runs carry the stamps of seconds 1 .. n.
OldArchives(n) == {BackupFileName(strftime(i)) : i \in 1 .. n}

Constructed ==
    /\ enabled = FALSE
    /\ auto_backup_task = "None"
    /\ sched_active = 0
    /\ is_backing_up = FALSE
    /\ accepted = 0
    /\ last_call = [is_auto |-> FALSE, returned |-> "none"]
    /\ th = [t \in Tasks |-> NewTask]

\* Spec: the plugin from its construction, any interleaving of the main thread
\* (on_enable, on_disable, manual and scheduled triggers) and the background
\* threads.
Init ==
    /\ Constructed
    /\ config = [auto |-> "on", max_backups |-> IntVal(1)]
    /\ world_exists \in BOOLEAN
    /\ world \in IF world_exists THEN {{}, {1}} ELSE {{}}
    /\ \E n \in {0, 1} :
         /\ backup_dir = OldArchives(n)
         /\ backup_dir_exists = (n > 0)
    /\ incomplete = {}
    /\ now = StartTime

Next ==
    \/ OnEnable
    \/ OnDisable
    \/ \E sender \in Senders : OnCommand(sender)
    \/ ScheduledBackup
    \/ \E t \in Tasks : BackupTask(t)

Spec == Init /\ [][Next]_vars

\* One accepted manual trigger: the plugin enabled, the first thread started.
Triggered ==
    /\ enabled = TRUE
    /\ auto_backup_task = "None"
    /\ sched_active = 0
    /\ is_backing_up = FALSE
    /\ accepted = 1
    /\ last_call = [is_auto |-> FALSE, returned |-> "True"]
    /\ th = [t \in Tasks |-> IF t = 1
                              THEN [NewTask EXCEPT !.pc = "start", !.trace = <<Ev("starting")>>]
                              ELSE NewTask]

\* SpecArchive: one run over a world of N files that no other process touches.
InitArchive ==
    /\ Triggered
    /\ config = [auto |-> "off", max_backups |-> IntVal(1)]
    /\ world_exists = TRUE
    /\ \E n \in 1 .. MaxN : world = 1 .. n
    /\ backup_dir = OldArchives(1)
    /\ backup_dir_exists = TRUE
    /\ incomplete = {}
    /\ now = StartTime

NextArchive == BackupTask(1)

SpecArchive == InitArchive /\ [][NextArchive]_vars

\* SpecEnv: one run while other processes create and delete world files and
\* the clock advances.
InitEnv ==
    /\ Triggered
    /\ config = [auto |-> "off", max_backups |-> IntVal(1)]
    /\ world_exists = TRUE
    /\ world \in SUBSET Files
    /\ \E n \in {0, 1} :
         /\ backup_dir = OldArchives(n)
         /\ backup_dir_exists = (n > 0)
    /\ incomplete = {}
    /\ now = StartTime

NextEnv ==
    \/ BackupTask(1)
    \/ Tick
    \/ \E f \in Files : DeleteWorldFile(f)
    \/ \E f \in Files : CreateWorldFile(f)

SpecEnv == InitEnv /\ [][NextEnv]_vars

\* SpecDelete: one run while other processes delete world files and create none.
NextDelete ==
    \/ BackupTask(1)
    \/ \E f \in Files : DeleteWorldFile(f)

SpecDelete == InitEnv /\ [][NextDelete]_vars

\* SpecPrune: one run into a backup directory that already holds archives
\* and other files, under every kind of max-backups setting.
MaxBackupsSettings == {Absent, NotInt} \cup {IntVal(k) : k \in -1 .. MaxLimit}

LimitOf(setting) ==
    LET max_backups == GetMaxBackups([max_backups |-> setting])
    IN  IF PruningEnabled(max_backups) THEN max_backups.val ELSE MaxLimit

InitPrune ==
    /\ Triggered
    /\ \E setting \in MaxBackupsSettings :
         /\ config = [auto |-> "off", max_backups |-> setting]
         /\ \E n \in 0 .. LimitOf(setting) + MaxExcess, others \in SUBSET OtherNames :
              backup_dir = OldArchives(n) \cup others
    /\ backup_dir_exists = TRUE
    /\ world_exists = TRUE
    /\ world = {1}
    /\ incomplete = {}
    /\ now = StartTime

NextPrune ==
    \/ BackupTask(1)
    \/ \E f \in backup_dir : ExternalRemove(f)

SpecPrune == InitPrune /\ [][NextPrune]_vars

\* SpecLive: an accepted trigger and the triggers that follow it while at
\* most one other run is under way; world files may vanish, and every started
\* thread keeps being scheduled: threading.Thread.start hands _backup_task to
\* the operating system, and no statement of it blocks.
InitLive ==
    /\ Triggered
    /\ config = [auto |-> "off", max_backups |-> IntVal(1)]
    /\ world_exists \in BOOLEAN
    /\ world \in IF world_exists THEN {{}, {1}} ELSE {{}}
    /\ \E n \in {0, 1} :
         /\ backup_dir = OldArchives(n)
         /\ backup_dir_exists = (n > 0)
    /\ incomplete = {}
    /\ now = StartTime

OverlappingTrigger ==
    /\ Cardinality({t \in Tasks : Running(t)}) <= 1
    /\ OnCommand("console")

NextLive ==
    \/ \E t \in Tasks : BackupTask(t)
    \/ OverlappingTrigger
    \/ \E f \in Files : DeleteWorldFile(f)

SpecLive == InitLive /\ [][NextLive]_vars /\ \A t \in Tasks : WF_vars(BackupTask(t))

\* SpecSeq: runs one after the other, each triggered from the console when no
\* run is in progress, while the clock advances.
InitSeq ==
    /\ Triggered
    /\ \E m \in {1, 2} : config = [auto |-> "off", max_backups |-> IntVal(m)]
    /\ world_exists = TRUE
    /\ world = {1}
    /\ \E n \in {0, 1, 2} : backup_dir = OldArchives(n)
    /\ backup_dir_exists = TRUE
    /\ incomplete = {}
    /\ now = StartTime

NextTrigger ==
    /\ \A t \in Tasks : ~Running(t)
    /\ OnCommand("console")

NextSeq ==
    \/ \E t \in Tasks : BackupTask(t)
    \/ Tick
    \/ NextTrigger

SpecSeq == InitSeq /\ [][NextSeq]_vars

\* SpecSched: the plugin from its construction under each kind of auto-backup
\* setting (enabled with a valid interval, disabled, enabled with an interval
\* that is no positive number); a trigger comes while no run is under way,
\* and every started thread keeps being scheduled.
AutoSettings == {"on", "off", "invalid"}

InitSched ==
    /\ Constructed
    /\ \E a \in AutoSettings : config = [auto |-> a, max_backups |-> IntVal(1)]
    /\ world_exists = TRUE
    /\ world = {1}
    /\ backup_dir = OldArchives(1)
    /\ backup_dir_exists = TRUE
    /\ incomplete = {}
    /\ now = StartTime

NextScheduled ==
    /\ \A t \in Tasks : ~Running(t)
    /\ ScheduledBackup

NextSched ==
    \/ OnEnable
    \/ OnDisable
    \/ NextTrigger
    \/ NextScheduled
    \/ \E t \in Tasks : BackupTask(t)

SpecSched == InitSched /\ [][NextSched]_vars /\ \A t \in Tasks : WF_vars(BackupTask(t))

\* ------------------------------------------------------------------ claims
Range(s) == {s[i] : i \in 1 .. Len(s)}
IsProgress(e) == e.ev = "progress"
Reports(t) == SelectSeq(th[t].trace, IsProgress)
Archives == {f \in backup_dir : IsBackupName(f)}
Limit == GetMaxBackups(config).val

\* C1 (Spec): single flight.  At most one _backup_task is running at any time:
\* once a trigger is accepted no other trigger is accepted until its task has
\* released the lock.
C1_SingleFlight == Cardinality({t \in Tasks : Running(t)}) <= 1

\* C2 (Spec): the lock is always released after a run.  Whenever no
\* _backup_task is running, is_backing_up is False, whichever way the runs
\* ended.
C2_LockReleased == (\A t \in Tasks : ~Running(t)) => ~is_backing_up

C2_Witness ==
    /\ \A t \in Tasks : ~Running(t)
    /\ \E t, u \in Tasks :
         /\ th[t].pc = "done" /\ th[t].outcome = "Unhandled"
         /\ th[u].pc = "done" /\ th[u].outcome = "Success"
    /\ ~is_backing_up

\* C3 (Spec): a rejected trigger has no effect.  The call that returns False
\* changes neither is_backing_up nor any thread nor the file system, and
\* threads exist only for accepted calls: each thread is started by the step
\* of a call that returns True.
Rejecting == last_call' # last_call /\ last_call'.returned = "False"
Accepting == last_call'.returned = "True" /\ accepted' = accepted + 1 /\ ~is_backing_up
Starting(t) == th[t].pc = "unused" /\ th'[t].pc # "unused"

C3_RejectedHasNoEffect ==
    /\ [](Cardinality({t \in Tasks : th[t].pc # "unused"}) = accepted)
    /\ [][Rejecting => UNCHANGED <<is_backing_up, th, fsVars, accepted, now>>]_vars
    /\ [][\A t \in Tasks : Starting(t) => Accepting]_vars

C3_Witness ==
    /\ last_call.returned = "False"
    /\ \E t \in Tasks : Running(t)
    /\ \E t \in Tasks : th[t].pc = "unused"

\* C4 (Spec): missing source.  A run that ends with the source-not-found
\* outcome has created no backup directory, opened no archive and pruned
\* nothing; os.makedirs is reached only after the world directory was found.
C4_MissingSource ==
    /\ \A t \in Tasks :
         th[t].outcome = "SourceNotFound" =>
           /\ th[t].pc \in {"finally", "done"}
           /\ ~Has(t, "makedirs") /\ ~Has(t, "makedirs_denied")
           /\ ~Has(t, "open")
           /\ ~Has(t, "listdir") /\ ~Has(t, "prune_off") /\ ~Has(t, "listdir_failed")
           /\ th[t].deleted = <<>>
    /\ \A t \in Tasks : Has(t, "makedirs") \/ Has(t, "makedirs_denied") => world_exists
    /\ ~world_exists /\ backup_dir = {} => ~backup_dir_exists
    /\ ~world_exists => backup_dir \subseteq OldArchives(1)

C4_Witness ==
    \E t \in Tasks :
      /\ th[t].pc = "finally"
      /\ th[t].outcome = "SourceNotFound"
      /\ ~backup_dir_exists

\* C5 (SpecEnv): empty source.  When the counting walk finds no file the
\* outcome is no-files-found, the archive file is not created and no pruning
\* pass runs: the archives of the backup directory are those of before the run.
C5_EmptySource ==
    \A t \in Tasks :
      /\ th[t].outcome = "NoFilesFound" =>
           /\ th[t].pc \in {"finally", "done"}
           /\ ~Has(t, "open")
           /\ ~Has(t, "listdir") /\ ~Has(t, "prune_off") /\ ~Has(t, "listdir_failed")
           /\ th[t].deleted = <<>>
           /\ Archives \subseteq OldArchives(1)
           /\ \/ Archives = {}
              \/ Archives = OldArchives(1)
      /\ Has(t, "open") => th[t].total_files > 0
      /\ Has(t, "no_files") => th[t].total_files = 0 /\ th[t].outcome = "NoFilesFound"

C5_Witness ==
    \E t \in Tasks :
      /\ th[t].pc = "finally"
      /\ th[t].outcome = "NoFilesFound"
      /\ Archives = OldArchives(1)
      /\ world # {}

\* C6 (SpecDelete): skip accounting.  A run that completes successfully while
\* counted files are deleted has files_written = total_files - files_skipped.
C6_SkipAccounting ==
    \A t \in Tasks :
      th[t].outcome = "Success" =>
        th[t].files_written = th[t].total_files - th[t].files_skipped

\* C7 (SpecPrune): retention result.  A pruning pass without deletion errors
\* over n matching names and a limit m deletes n - m names when n > m and
\* none otherwise, every deleted name sorts before every kept one, and is a
\* matching name; no step removes a name that does not match.
CleanPass(t) ==
    /\ th[t].pc = "finally"
    /\ Has(t, "listdir")
    /\ th[t].failed = <<>>

C7_Retention ==
    /\ [](\A t \in Tasks :
            CleanPass(t) =>
              LET n == Len(th[t].backups)
                  D == Range(th[t].deleted)
              IN  /\ Range(th[t].backups) = Archives \cup D
                  /\ Archives \cap D = {}
                  /\ Cardinality(Range(th[t].backups)) = n
                  /\ Len(th[t].deleted) = Cardinality(D)
                  /\ Cardinality(D) = IF n > Limit THEN n - Limit ELSE 0
                  /\ \A d \in D : IsBackupName(d)
                  /\ \A d \in D, k \in Archives : NameLess(d, k))
    /\ [][\A f \in backup_dir : ~IsBackupName(f) => f \in backup_dir']_vars

C7_Witness ==
    \E t \in Tasks :
      /\ CleanPass(t)
      /\ Len(th[t].deleted) >= 2
      /\ Cardinality(Archives) >= 2
      /\ OtherNames \subseteq backup_dir

\* C8 (SpecPrune), as stated: with max-backups missing or <= 0 no file is
\* deleted.
NonPositive == config.max_backups.kind = "int" /\ config.max_backups.val <= 0

C8_NoPruningWhenAbsentOrNonPositive ==
    \A t \in Tasks :
      config.max_backups.kind = "absent" \/ NonPositive =>
        th[t].deleted = <<>> /\ th[t].files_to_delete = <<>>

\* C8 (SpecPrune), amended: with max-backups <= 0 no file is deleted and the
\* directory is not even listed; with max-backups missing the limit is 10, and
\* files are deleted only when more than 10 names match.
C8_NoPruningWhenNonPositive ==
    /\ [](\A t \in Tasks :
            /\ NonPositive =>
                 /\ th[t].deleted = <<>> /\ th[t].files_to_delete = <<>>
                 /\ ~Has(t, "listdir")
            /\ config.max_backups.kind = "absent" /\ th[t].files_to_delete # <<>> =>
                 Len(th[t].backups) > DefaultMaxBackups)
    /\ [][NonPositive => backup_dir \subseteq backup_dir']_vars

C8_Witness ==
    \E t \in Tasks :
      /\ NonPositive
      /\ th[t].pc = "finally"
      /\ Has(t, "prune_off")
      /\ Cardinality(Archives) > MaxLimit

\* C9 (SpecArchive): progress reports.  Over an unchanging world of N >= 1
\* files each reported percentage is at least 10 above the one before, and a
\* run makes at most 11 reports.
C9_ProgressMonotone ==
    \A t \in Tasks :
      LET P == Reports(t)
      IN  /\ Len(P) <= 11
          /\ \A i \in 1 .. Len(P) - 1 : P[i + 1].pct >= P[i].pct + 10

C9_Witness ==
    \E t \in Tasks :
      /\ th[t].total_files = 100
      /\ Len(Reports(t)) = 10
      /\ th[t].pc = "manage"

\* C10 (SpecPrune): best-effort pruning.  Whatever deletions of a pass fail,
\* every name of the deletion set is attempted, the others are deleted,
\* oldest first, the outcome stays the reported success and the pass ends at
\* the release of the lock.
C10_BestEffortPruning ==
    \A t \in Tasks :
      Has(t, "listdir") =>
        LET D == FilesToDelete(th[t].backups, Limit)
        IN  /\ th[t].outcome = "Success"
            /\ th[t].pc \in {"remove", "finally"}
            /\ th[t].pc = "finally" => th[t].files_to_delete = <<>>
            /\ Range(th[t].deleted) \cup Range(th[t].failed)
                 \cup Range(th[t].files_to_delete) = Range(D)
            /\ Range(th[t].deleted) \cap Range(th[t].failed) = {}
            /\ Range(th[t].deleted) \cap backup_dir = {}
            /\ \A i, j \in 1 .. Len(th[t].deleted) :
                 i < j => NameLess(th[t].deleted[i], th[t].deleted[j])

C10_Witness ==
    \E t \in Tasks :
      /\ th[t].pc = "finally"
      /\ Has(t, "remove_missing")
      /\ Has(t, "remove_failed")
      /\ th[t].deleted # <<>>
      /\ NameLess(th[t].failed[1], th[t].deleted[Len(th[t].deleted)])
      /\ th[t].outcome = "Success"

\* C11 (SpecSeq): a partially written archive is never treated as valid by
\* retention.  After a run was aborted between the opening and the closing of
\* its archive, the listing of a later pruning pass does not count the file it
\* left behind, and the names chosen for deletion are those chosen among the
\* completely written archives alone.
JustListed(t) ==
    /\ Has(t, "listdir")
    /\ th[t].deleted = <<>>
    /\ th[t].failed = <<>>

C11_PartialArchiveNotCounted ==
    \A t \in Tasks :
      JustListed(t) =>
        LET complete == Range(th[t].backups) \ incomplete
        IN  /\ Range(th[t].backups) \cap incomplete = {}
            /\ th[t].files_to_delete = FilesToDelete(SortNames(complete), Limit)

\* C12 (Spec): a refused creation of the backup directory is fatal for the
\* run only.  The run reports the failure, opens no archive, makes no pruning
\* pass and deletes nothing; its thread goes on to the finally clause and ends
\* there, and the step that ends it leaves is_backing_up False.
DirCreateFailed(t) == th[t].outcome = "BackupDirCreateFailed"

C12_DirCreateFailure ==
    /\ [](\A t \in Tasks :
            DirCreateFailed(t) =>
              /\ th[t].pc \in {"finally", "done"}
              /\ th[t].pc = "finally" =>
                   /\ Has(t, "makedirs_denied")
                   /\ th[t].trace[Len(th[t].trace)].ev = "makedirs_denied"
              /\ th[t].backup_file_name = NoName
              /\ ~Has(t, "open")
              /\ ~Has(t, "listdir") /\ ~Has(t, "prune_off") /\ ~Has(t, "listdir_failed")
              /\ th[t].deleted = <<>> /\ th[t].files_to_delete = <<>>)
    /\ [][\A t \in Tasks :
            DirCreateFailed(t) /\ th[t].pc = "finally" /\ th'[t].pc # "finally" =>
              th'[t].pc = "done" /\ ~is_backing_up']_vars
    /\ [][\A t \in Tasks :
            ~DirCreateFailed(t) /\ DirCreateFailed(t)' =>
              UNCHANGED fsVars /\ th[t].pc = "makedirs"]_vars

C12_Witness ==
    \E t \in Tasks :
      /\ th[t].pc = "done"
      /\ DirCreateFailed(t)
      /\ ~is_backing_up
      /\ ~backup_dir_exists
      /\ backup_dir = {}

\* C13 (SpecPrune): step ordering of a successful run.  The lock is taken
\* before the archive is opened, the archive is closed before the pruning
\* pass, a run makes at most one pruning pass and only while the lock is held,
\* and the success notification is emitted only after the lock was released.
First(t, e) == CHOOSE i \in 1 .. Len(th[t].trace) : th[t].trace[i].ev = e
PruneEvents == {"listdir", "prune_off", "listdir_failed"}
PrunePasses(t) == {i \in 1 .. Len(th[t].trace) : th[t].trace[i].ev \in PruneEvents}

C13_OrderUpToPruning ==
    \A t \in Tasks :
      /\ Has(t, "open") => Has(t, "lock") /\ First(t, "lock") < First(t, "open")
      /\ Has(t, "close") => Has(t, "open") /\ First(t, "open") < First(t, "close")
      /\ Cardinality(PrunePasses(t)) <= 1
      /\ \A i \in PrunePasses(t) :
           /\ Has(t, "close") /\ First(t, "close") < i
           /\ is_backing_up
      /\ th[t].pc \in {"manage", "remove"} => is_backing_up

C13_StepOrder ==
    /\ C13_OrderUpToPruning
    /\ \A t \in Tasks : Has(t, "success") => ~is_backing_up

\* C14 (SpecLive): running leads to idle.  Every started _backup_task, on
\* whichever path, reaches its end, and the step that ends it leaves
\* is_backing_up False; it does so whatever the other threads do.
C14_RunningLeadsToIdle ==
    \A t \in Tasks : Running(t) ~> (th[t].pc = "done" /\ ~is_backing_up)

C14_Witness ==
    \E t, u \in Tasks :
      /\ th[t].pc = "done" /\ th[t].outcome = "Success"
      /\ ~is_backing_up
      /\ Running(u) /\ th[u].files_skipped > 0

\* C15 (SpecArchive), as stated: every archive pass over a non-empty
\* unchanging world emits, before the success notification, a progress
\* notification of 100 percent with files_processed = total_files.
Succeeded(t) == Has(t, "success")
LastReport(t) == Reports(t)[Len(Reports(t))]

C15_FinalReportIsHundred ==
    \A t \in Tasks :
      Succeeded(t) =>
        /\ Reports(t) # <<>>
        /\ LastReport(t).pct = Percent
        /\ LastReport(t).k = th[t].total_files

\* C15 (SpecArchive), amended: every such pass emits at least one progress
\* notification and all of them before the success notification; the last one
\* carries more than 90 percent; it carries 100 percent, with files_processed =
\* total_files, exactly when the highest percentage reported below 100 is at
\* most 90, which is so for N <= 10 and for N = 100, and is not so for N = 13.
BelowHundred(t) == {Reports(t)[i].pct : i \in 1 .. Len(Reports(t))} \ {Percent}

C15_FinalReport ==
    \A t \in Tasks :
      Succeeded(t) =>
        LET n == th[t].total_files
            last == LastReport(t)
        IN  /\ Reports(t) # <<>>
            /\ \A i \in 1 .. Len(th[t].trace) :
                 th[t].trace[i].ev = "progress" => i < First(t, "success")
            /\ last.pct > Percent - ReportStep
            /\ last.pct <= Percent
            /\ last.pct = Percent <=> last.k = n
            /\ last.pct = Percent <=> \A p \in BelowHundred(t) : p <= Percent - ReportStep
            /\ n <= 10 \/ n = 100 => last.pct = Percent
            /\ n = 13 => last.pct = 92 /\ last.k = 12

C15_Witness ==
    \E t \in Tasks :
      /\ Succeeded(t)
      /\ th[t].total_files = 13
      /\ LastReport(t).pct = 92
      /\ th[t].files_processed = 13

\* C16 (SpecSched): scheduler registration and shutdown.  At most one
\* recurring task is registered at any time, and none unless auto-backup is
\* enabled with a valid interval; while the plugin is disabled no task is
\* registered and no call of _execute_backup is made; on_disable touches no
\* running thread, and a thread running at that moment still reaches its end
\* and releases the lock.
Disabling == enabled /\ ~enabled'

C16_SchedulerAndShutdown ==
    /\ [](/\ sched_active \in {0, 1}
          /\ sched_active = 1 <=> auto_backup_task = "active"
          /\ auto_backup_task = "active" => enabled /\ config.auto = "on"
          /\ config.auto # "on" => auto_backup_task = "None"
          /\ ~enabled => sched_active = 0)
    /\ [][~enabled => UNCHANGED <<last_call, accepted>>]_vars
    /\ [][Disabling => sched_active' = 0 /\ UNCHANGED <<th, is_backing_up, fsVars>>]_vars
    /\ \A t \in Tasks :
         (~enabled /\ Running(t)) ~> (th[t].pc = "done" /\ ~is_backing_up)

C16_Witness ==
    /\ ~enabled
    /\ auto_backup_task = "cancelled"
    /\ last_call = [is_auto |-> TRUE, returned |-> "True"]
    /\ is_backing_up
    /\ \E t \in Tasks : th[t].pc = "finally" /\ th[t].outcome = "Success"

\* C17 (SpecSeq): no run overwrites an existing archive.  When a run is about
\* to open its archive, also when it started within the same clock second as
\* the run before it, the backup directory holds no completely written archive
\* of that name, so that each successful run adds one archive.
C17_NoOverwrite ==
    \A t \in Tasks :
      th[t].pc = "open" => th[t].backup_file_name \notin backup_dir \ incomplete

\* C18 (SpecPrune): the archive a run has written survives the pruning pass
\* of that run.  With a limit of at least 1 and no listed archive stamped
\* later than the new one, the new name sorts last in the listing and is
\* neither chosen for deletion nor deleted, whatever else the pass removes.
C18_NewArchiveSurvives ==
    \A t \in Tasks :
      Has(t, "listdir") =>
        LET name == th[t].backup_file_name
            backups == th[t].backups
        IN  /\ Limit >= 1
            /\ \A f \in Range(backups) : ~NameLess(name, f)
            /\ backups[Len(backups)] = name
            /\ name \notin Range(FilesToDelete(backups, Limit))
            /\ name \notin Range(th[t].files_to_delete)
                             \cup Range(th[t].deleted) \cup Range(th[t].failed)
            /\ name \in backup_dir

C18_Witness ==
    \E t \in Tasks :
      /\ th[t].pc = "finally"
      /\ Has(t, "listdir")
      /\ Limit = 1
      /\ Len(th[t].deleted) >= 2
      /\ Archives = {th[t].backup_file_name}

\* C19 (SpecEnv): progress values stay in range when the tree changes.
\* Whatever files other processes create or delete between the counting walk
\* and the archiving walk, every progress notification has files_processed <=
\* total_files and a percentage from 0 to 100.
C19_ProgressInRange ==
    \A t \in Tasks :
      \A i \in 1 .. Len(Reports(t)) :
        LET r == Reports(t)[i]
        IN  /\ r.k <= r.n
            /\ 0 <= r.pct
            /\ r.pct <= Percent

====
